---- MODULE Spec2Model ----
(***************************************************************************)
(* Model of the vocab-app front end (src/app.js): the spaced-repetition    *)
(* word selector, and the upload, generate-batch and click handlers that   *)
(* run against the two Firestore documents meta/wordBank and               *)
(* meta/wordStats.                                                         *)
(*                                                                         *)
(* Words are numbers.  0 is the empty string.  1..999 are words in their   *)
(* composed form; w + CompatOffset is a compatibility variant of w (a      *)
(* ligature or full-width spelling: NFC keeps it, NFKC folds it onto w);   *)
(* w + DecompOffset is the canonically decomposed spelling of w (NFC and   *)
(* NFKC both fold it onto w).                                              *)
(*                                                                         *)
(* A stats map (storyUsage, clickCount, lastClickUsage) is a function      *)
(* whose DOMAIN is the set of keys the JavaScript object holds; a missing  *)
(* key reads as undefined.                                                 *)
(***************************************************************************)
EXTENDS Integers, Sequences, FiniteSets, TLC

\* ========================
\* CONFIGURATION CONSTANTS
\* ========================
NEW_BATCH_SIZE == 50
MIX_SIZE == 50
MASTER_THRESHOLD == 20
REVIEW_THRESHOLD == 20

\* ========================
\* BOUNDS OF THE MODEL
\* ========================
\* Math.random() is drawn from { k / RandDen : k \in 0 .. RandDen - 1 }.
RandDen == 2
\* Handler runs of each kind that one behaviour starts.
MaxUploads == 2
MaxGens == 2
MaxClicks == 2
\* Handler runs of all kinds together that one behaviour starts.
MaxRuns == 4
\* Largest storyUsage / lastClickUsage and largest clickCount among the stats
\* handed to a direct call of the selector.
MaxStoryUsage == 30
MaxClickCount == 3

\* ========================
\* JAVASCRIPT HELPERS
\* ========================
EmptyMap == [w \in {} |-> 0]

\* (m[w] || 0): undefined and 0 both read as 0.
OrZero(m, w) == IF w \in DOMAIN m THEN m[w] ELSE 0

\* arr.includes(w)
includes(arr, w) == \E i \in 1..Len(arr) : arr[i] = w

\* The set of elements of a sequence
Range(arr) == {arr[i] : i \in 1..Len(arr)}

\* Math.floor(Math.random() * len) for Math.random() = r / RandDen
randomIndex(r, len) == (r * len) \div RandDen

\* The loop of pickRandom over the positions of arr, Math.random() returning
\* r / RandDen at every draw: copy holds the positions not yet picked; the
\* first n \div 2 draws are made, then the others on what they leave (the
\* same draws as the loop makes one by one).
RECURSIVE drawPositions(_, _, _)
drawPositions(copy, n, r) ==
  IF n <= 0 \/ Len(copy) = 0 THEN <<>>
  ELSE IF n = 1 THEN <<copy[randomIndex(r, Len(copy)) + 1]>>
  ELSE LET first == drawPositions(copy, n \div 2, r)
           taken == {first[i] : i \in 1..Len(first)}
           rest  == SelectSeq(copy, LAMBDA i : i \notin taken)
       IN  first \o drawPositions(rest, n - (n \div 2), r)

\* pickRandom whose loop does not test picked.length < n.
pickRandomUnbounded(arr, n, r) ==
  LET picked == drawPositions([i \in 1..Len(arr) |-> i], Len(arr), r)
  IN  [k \in 1..Len(picked) |-> arr[picked[k]]]

\* pickRandom(arr, n)
pickRandom(arr, n, r) ==
  LET picked == drawPositions([i \in 1..Len(arr) |-> i], n, r)
  IN  [k \in 1..Len(picked) |-> arr[picked[k]]]

min(a, b) == IF a < b THEN a ELSE b

\* Math.floor(n / 3)
floorThird(n) == n \div 3

\* Math.ceil(n / 3)
ceilThird(n) == (n + 2) \div 3

\* ========================
\* TIER LISTS (selectSpacedRepetitionWords, step 1)
\* ========================
\* storyUsage[w] - (lastClickUsage[w] || 0) compared with REVIEW_THRESHOLD:
\* when storyUsage has no entry for w the difference is NaN and both
\* comparisons are false.
\* unseen taking a word shown once for a word never shown.
unseenOrShownOnce(allWords, storyUsage) ==
  SelectSeq(allWords, LAMBDA w : OrZero(storyUsage, w) <= 1)

\* (storyUsage[w] || 0) === 0
unseen(allWords, storyUsage) ==
  SelectSeq(allWords, LAMBDA w : OrZero(storyUsage, w) = 0)

\* seenUnclicked without the storyUsage[w] < MASTER_THRESHOLD test.
seenUnclickedUncapped(allWords, storyUsage, clickCount) ==
  SelectSeq(allWords, LAMBDA w :
    /\ OrZero(storyUsage, w) > 0
    /\ OrZero(clickCount, w) = 0)


seenUnclicked(allWords, storyUsage, clickCount) ==
  SelectSeq(allWords, LAMBDA w :
    /\ OrZero(storyUsage, w) > 0
    /\ storyUsage[w] < MASTER_THRESHOLD
    /\ OrZero(clickCount, w) = 0)

\* clickedInLearning reading a missing storyUsage entry as 0:
\* ((storyUsage[w] || 0) - (lastClickUsage[w] || 0)) < REVIEW_THRESHOLD.
clickedInLearningOrZero(allWords, storyUsage, clickCount, lastClickUsage) ==
  SelectSeq(allWords, LAMBDA w :
    /\ OrZero(clickCount, w) > 0
    /\ OrZero(storyUsage, w) - OrZero(lastClickUsage, w) < REVIEW_THRESHOLD)


clickedInLearning(allWords, storyUsage, clickCount, lastClickUsage) ==
  SelectSeq(allWords, LAMBDA w :
    /\ OrZero(clickCount, w) > 0
    /\ w \in DOMAIN storyUsage
    /\ storyUsage[w] - OrZero(lastClickUsage, w) < REVIEW_THRESHOLD)

masteredByRepetition(allWords, storyUsage, clickCount) ==
  SelectSeq(allWords, LAMBDA w :
    /\ OrZero(storyUsage, w) >= MASTER_THRESHOLD
    /\ OrZero(clickCount, w) = 0)

\* masteredByReview with > for >=.
masteredByReviewStrict(allWords, storyUsage, clickCount, lastClickUsage) ==
  SelectSeq(allWords, LAMBDA w :
    /\ OrZero(clickCount, w) > 0
    /\ w \in DOMAIN storyUsage
    /\ storyUsage[w] - OrZero(lastClickUsage, w) > REVIEW_THRESHOLD)


masteredByReview(allWords, storyUsage, clickCount, lastClickUsage) ==
  SelectSeq(allWords, LAMBDA w :
    /\ OrZero(clickCount, w) > 0
    /\ w \in DOMAIN storyUsage
    /\ storyUsage[w] - OrZero(lastClickUsage, w) >= REVIEW_THRESHOLD)

\* Array.prototype.sort with the comparator clickCount[a] - clickCount[b]:
\* a stable sort, ascending by click count.  The words are laid out one click
\* count after the other, smallest first, each group in its original order.
RECURSIVE sortByKeys(_, _, _)
sortByKeys(arr, clickCount, keys) ==
  IF keys = {} THEN <<>>
  ELSE LET k == CHOOSE x \in keys : \A y \in keys : x <= y
       IN  SelectSeq(arr, LAMBDA w : OrZero(clickCount, w) = k)
             \o sortByKeys(arr, clickCount, keys \ {k})

sortByClicks(arr, clickCount) ==
  sortByKeys(arr, clickCount, {OrZero(clickCount, arr[i]) : i \in 1..Len(arr)})

\* ========================
\* selectSpacedRepetitionWords
\* ========================
\* Every intermediate list of one call.  rs[1..5] are the Math.random()
\* values of the five pickRandom calls, in call order.
selectionSteps(allWords, storyUsage, clickCount, lastClickUsage, rs) ==
  LET tUnseen   == unseen(allWords, storyUsage)
      tSeen     == seenUnclicked(allWords, storyUsage, clickCount)
      tMastRep  == masteredByRepetition(allWords, storyUsage, clickCount)
      tMastRev  == masteredByReview(allWords, storyUsage, clickCount, lastClickUsage)
      batchNew  == pickRandom(tUnseen, min(Len(tUnseen), NEW_BATCH_SIZE), rs[1])
      \* sort() sorts clickedInLearning in place
      sortedClicked ==
        sortByClicks(clickedInLearning(allWords, storyUsage, clickCount, lastClickUsage),
                     clickCount)
      third     == ceilThird(Len(sortedClicked))
      hard      == SubSeq(sortedClicked, 1, min(third, Len(sortedClicked)))
      medium    == SubSeq(sortedClicked, third + 1, min(2 * third, Len(sortedClicked)))
      easy      == SubSeq(sortedClicked, 2 * third + 1, Len(sortedClicked))
      hardPick   == pickRandom(hard,   min(Len(hard),   20), rs[2])
      mediumPick == pickRandom(medium, min(Len(medium), 20), rs[3])
      easyPick   == pickRandom(easy,   min(Len(easy),   10), rs[4])
      primary   == batchNew \o hardPick \o mediumPick \o easyPick
      chosen    == Range(primary)
      fallbackPool ==
        SelectSeq(tUnseen, LAMBDA w : w \notin chosen)
          \o SelectSeq(tSeen, LAMBDA w : w \notin chosen)
          \o SelectSeq(sortedClicked, LAMBDA w : w \notin chosen)
      backfill  ==
        IF Len(primary) < 100
        THEN pickRandom(fallbackPool, min(Len(fallbackPool), 100 - Len(primary)), rs[5])
        ELSE <<>>
  IN  [unseen |-> tUnseen, seenUnclicked |-> tSeen,
       clickedInLearning |-> sortedClicked,
       masteredByRepetition |-> tMastRep, masteredByReview |-> tMastRev,
       batchNew |-> batchNew, hard |-> hard, medium |-> medium, easy |-> easy,
       hardPick |-> hardPick, mediumPick |-> mediumPick, easyPick |-> easyPick,
       backfill |-> backfill,
       selectedWords |-> primary \o backfill]

selectSpacedRepetitionWords(allWords, storyUsage, clickCount, lastClickUsage, rs) ==
  selectionSteps(allWords, storyUsage, clickCount, lastClickUsage, rs).selectedWords


\* ========================
\* TEXT: normalisation and sanitising
\* ========================
CompatOffset == 1000
DecompOffset == 2000
PunctOffset == 3000

\* String.prototype.normalize('NFC'): composes a decomposed spelling, keeps a
\* compatibility variant.
normalizeNFC(w) == IF w >= DecompOffset THEN w - DecompOffset ELSE w

\* String.prototype.normalize('NFKC'): folds both kinds of variant.
normalizeNFKC(w) == w % CompatOffset

\* sanitizeWord: a token t + PunctOffset is t with punctuation or symbols
\* attached; PunctOffset itself is punctuation only and sanitises to "".
sanitizeWord(token) == IF token >= PunctOffset THEN token - PunctOffset ELSE token

\* ========================
\* STATE
\* ========================
VARIABLES
  wordBank,    \* Firestore meta/wordBank: [exists, words]
  wordStats,   \* Firestore meta/wordStats: [exists, storyUsage, clickCount, lastClickUsage]
  up,          \* runs of the uploadWords click handler
  gen,         \* runs of the fetchWords click handler
  clk,         \* runs of handleWordClick
  exposures,   \* history: word -> number of applied stats writes of batches holding it
  selArgs,     \* arguments of a direct call of selectSpacedRepetitionWords
  selCalled,   \* whether that call has returned
  selRet       \* its intermediate lists and result

vars == <<wordBank, wordStats, up, gen, clk, exposures, selArgs, selCalled, selRet>>
selVars == <<selArgs, selCalled, selRet>>
appVars == <<wordBank, wordStats, up, gen, clk, exposures>>

NoBank == [exists |-> FALSE, words |-> <<>>]
NoStats == [exists |-> FALSE, storyUsage |-> EmptyMap, clickCount |-> EmptyMap,
            lastClickUsage |-> EmptyMap]

UpIdle  == [pc |-> "idle", newWords |-> <<>>, unique |-> <<>>]
GenIdle == [pc |-> "idle", allWords |-> <<>>, selected |-> <<>>, msg |-> ""]
ClkIdle == [pc |-> "idle", word |-> 0, usage |-> 0, between |-> {}]

\* The runs started so far, and whether one more may start.
started ==
  Cardinality({u \in DOMAIN up : up[u].pc # "idle"})
    + Cardinality({g \in DOMAIN gen : gen[g].pc # "idle"})
    + Cardinality({c \in DOMAIN clk : clk[c].pc # "idle"})

mayStart == started < MaxRuns

\* ------------------------
\* Inputs
\* ------------------------
seqTo(n) == [i \in 1..n |-> i]

\* The files a user uploads: an extension and the file's tokens between
\* separators (0 is a blank token).  One word short of a batch; the same
\* words and one more, spelt decomposed and then composed; a .csv file whose
\* first word is a compatibility spelling of its second; a file of another
\* type.
Files ==
  { [ext |-> "txt", tokens |-> seqTo(NEW_BATCH_SIZE + MIX_SIZE - 1)],
    [ext |-> "txt", tokens |-> <<0>> \o seqTo(NEW_BATCH_SIZE + MIX_SIZE - 1)
                                 \o <<NEW_BATCH_SIZE + MIX_SIZE + DecompOffset,
                                      NEW_BATCH_SIZE + MIX_SIZE>>],
    [ext |-> "csv", tokens |-> <<1 + CompatOffset>>
                                 \o seqTo(NEW_BATCH_SIZE + MIX_SIZE - 1)],
    [ext |-> "pdf", tokens |-> <<1>>] }

\* The tokens a user clicks.
ClickTokens == {PunctOffset, 1, 1 + PunctOffset}

\* ========================
\* UPLOAD WORDS HANDLER with uploadToFirestore
\* ========================
\* split, trim and filter(w => w.length > 0) of a file's text; the .txt branch
\* normalises to NFC first, the .csv branch does not.
parseFile(file) ==
  LET norm == IF file.ext = "txt"
              THEN [i \in 1..Len(file.tokens) |-> normalizeNFC(file.tokens[i])]
              ELSE file.tokens
  IN  SelectSeq(norm, LAMBDA w : w # 0)

\* arrayUnion(...elements) applied to the stored array: each element not yet
\* in the array is appended, once.
arrayUnion(stored, elements) ==
  LET added == SelectSeq(seqTo(Len(elements)), LAMBDA i :
                 /\ ~includes(stored, elements[i])
                 /\ \A j \in 1..(i - 1) : elements[j] # elements[i])
  IN  stored \o [k \in 1..Len(added) |-> elements[added[k]]]

\* No file chosen: alert and return.
UploadNoFile(u) ==
  /\ up[u].pc = "idle"
  /\ mayStart
  /\ \A v \in 1..(u - 1) : up[v].pc # "idle"
  /\ up' = [up EXCEPT ![u] = [UpIdle EXCEPT !.pc = "done"]]
  /\ UNCHANGED <<wordBank, wordStats, gen, clk, exposures, selVars>>

\* A file of another type than .txt or .csv: alert and return.
UploadUnsupported(u) ==
  /\ up[u].pc = "idle"
  /\ mayStart
  /\ \A v \in 1..(u - 1) : up[v].pc # "idle"
  /\ \E file \in Files :
       /\ file.ext \notin {"txt", "csv"}
       /\ up' = [up EXCEPT ![u] = [UpIdle EXCEPT !.pc = "done"]]
  /\ UNCHANGED <<wordBank, wordStats, gen, clk, exposures, selVars>>

\* The file is parsed and uploadToFirestore reads the word bank: up to the
\* write it issues.  existing holds the stored words, and w \notin existing
\* is !existing.includes(w).
UploadRead(u) ==
  /\ up[u].pc = "idle"
  /\ mayStart
  /\ \A v \in 1..(u - 1) : up[v].pc # "idle"
  /\ \E file \in Files :
       /\ file.ext \in {"txt", "csv"}
       /\ LET newWords == parseFile(file)
              existing == Range(wordBank.words)
              unique   == SelectSeq(newWords, LAMBDA w : w \notin existing)
          IN  up' = [up EXCEPT ![u] =
                IF wordBank.exists
                THEN IF unique = <<>>
                     THEN [UpIdle EXCEPT !.pc = "done"]
                     ELSE [pc |-> "union", newWords |-> newWords, unique |-> unique]
                ELSE [pc |-> "set", newWords |-> newWords, unique |-> <<>>]]
  /\ UNCHANGED <<wordBank, wordStats, gen, clk, exposures, selVars>>

\* updateDoc(wordBankRef, { words: arrayUnion(...unique) }) is applied.
UploadUnion(u) ==
  /\ up[u].pc = "union"
  /\ wordBank' = [wordBank EXCEPT !.words = arrayUnion(wordBank.words, up[u].unique)]
  /\ up' = [up EXCEPT ![u] = [UpIdle EXCEPT !.pc = "done"]]
  /\ UNCHANGED <<wordStats, gen, clk, exposures, selVars>>

\* setDoc(wordBankRef, { words: newWords }) is applied.
UploadSet(u) ==
  /\ up[u].pc = "set"
  /\ wordBank' = [exists |-> TRUE, words |-> up[u].newWords]
  /\ up' = [up EXCEPT ![u] = [UpIdle EXCEPT !.pc = "done"]]
  /\ UNCHANGED <<wordStats, gen, clk, exposures, selVars>>

\* ========================
\* FETCH & GENERATE STORY HANDLER
\* ========================
\* storyUsage after updateDoc(statsRef, { "storyUsage.<w>": increment(1) })
\* for the words of a batch: one field per distinct word.
incrementUsage(storyUsage, selected) ==
  LET batch == Range(selected)
  IN  [w \in DOMAIN storyUsage \cup batch |->
         IF w \in batch THEN OrZero(storyUsage, w) + 1 ELSE storyUsage[w]]

\* selected.reduce((o, w) => ({ ...o, [w]: 1 }), {})
freshUsage(selected) == [w \in Range(selected) |-> 1]

\* getDoc(wordBank): no word bank, alert and return.
GenNoBank(g) ==
  /\ gen[g].pc = "idle"
  /\ mayStart
  /\ \A h \in 1..(g - 1) : gen[h].pc # "idle"
  /\ ~wordBank.exists
  /\ gen' = [gen EXCEPT ![g] = [GenIdle EXCEPT !.pc = "done", !.msg = "UploadFirst"]]
  /\ UNCHANGED <<wordBank, wordStats, up, clk, exposures, selVars>>

\* getDoc(wordBank): allWords is the stored list, each word normalised to
\* NFKC, empty strings dropped.
GenReadBank(g) ==
  /\ gen[g].pc = "idle"
  /\ mayStart
  /\ \A h \in 1..(g - 1) : gen[h].pc # "idle"
  /\ wordBank.exists
  /\ gen' = [gen EXCEPT ![g] =
       [GenIdle EXCEPT !.pc = "readStats",
          !.allWords = SelectSeq([i \in 1..Len(wordBank.words) |->
                                    normalizeNFKC(wordBank.words[i])],
                                 LAMBDA w : w # 0)]]
  /\ UNCHANGED <<wordBank, wordStats, up, clk, exposures, selVars>>

\* getDoc(wordStats) with too few words: alert and return.
GenTooFew(g) ==
  /\ gen[g].pc = "readStats"
  /\ Len(gen[g].allWords) < NEW_BATCH_SIZE + MIX_SIZE
  /\ gen' = [gen EXCEPT ![g] = [GenIdle EXCEPT !.pc = "done", !.msg = "NeedAtLeast"]]
  /\ UNCHANGED <<wordBank, wordStats, up, clk, exposures, selVars>>

\* getDoc(wordStats), the selection, and the stats write issued: updateDoc
\* when the snapshot exists, setDoc when it does not.
GenSelect(g) ==
  /\ gen[g].pc = "readStats"
  /\ Len(gen[g].allWords) >= NEW_BATCH_SIZE + MIX_SIZE
  /\ \E r \in 0..(RandDen - 1) :
       gen' = [gen EXCEPT ![g] =
         [@ EXCEPT !.pc = IF wordStats.exists THEN "update" ELSE "set",
                   !.selected = selectSpacedRepetitionWords(
                                  gen[g].allWords, wordStats.storyUsage,
                                  wordStats.clickCount, wordStats.lastClickUsage,
                                  [i \in 1..5 |-> r])]]
  /\ UNCHANGED <<wordBank, wordStats, up, clk, exposures, selVars>>

\* The history of applied batches.
expose(selected) == incrementUsage(exposures, selected)

\* History kept for the click runs between their read and their write: the
\* kinds of run whose stats write was applied meanwhile.
noted(kind, self) ==
  [c \in DOMAIN clk |->
     IF c # self /\ clk[c].pc \in {"update", "create"}
     THEN [clk[c] EXCEPT !.between = @ \cup {kind}]
     ELSE clk[c]]

\* A handler that returns without a story when the batch is empty.
GenUpdateUnlessEmpty(g) ==
  /\ gen[g].pc = "update"
  /\ wordStats' = [wordStats EXCEPT
                     !.storyUsage = incrementUsage(wordStats.storyUsage, gen[g].selected)]
  /\ exposures' = expose(gen[g].selected)
  /\ gen' = [gen EXCEPT ![g] =
       [GenIdle EXCEPT !.pc = "done",
                       !.msg = IF gen[g].selected = <<>> THEN "" ELSE "Story"]]
  /\ clk' = noted("gen", 0)
  /\ UNCHANGED <<wordBank, up, selVars>>

\* updateDoc(statsRef, usageUpdates) is applied; then generateStory(selected)
\* runs and its story is displayed (neither touches the database).
GenUpdate(g) ==
  /\ gen[g].pc = "update"
  /\ wordStats' = [wordStats EXCEPT
                     !.storyUsage = incrementUsage(wordStats.storyUsage, gen[g].selected)]
  /\ exposures' = expose(gen[g].selected)
  /\ gen' = [gen EXCEPT ![g] = [GenIdle EXCEPT !.pc = "done", !.msg = "Story"]]
  /\ clk' = noted("gen", 0)
  /\ UNCHANGED <<wordBank, up, selVars>>

\* setDoc(statsRef, { storyUsage: {w: 1 ...}, clickCount: {}, lastClickUsage: {} })
\* is applied; then the story is generated and displayed.
GenSet(g) ==
  /\ gen[g].pc = "set"
  /\ wordStats' = [exists |-> TRUE, storyUsage |-> freshUsage(gen[g].selected),
                   clickCount |-> EmptyMap, lastClickUsage |-> EmptyMap]
  /\ exposures' = expose(gen[g].selected)
  /\ gen' = [gen EXCEPT ![g] = [GenIdle EXCEPT !.pc = "done", !.msg = "Story"]]
  /\ clk' = noted("gen", 0)
  /\ UNCHANGED <<wordBank, up, selVars>>

\* A rejected stats write that has applied the increment of the first
\* selected word.
GenWriteFailsPartial(g) ==
  /\ gen[g].pc \in {"update", "set"}
  /\ gen' = [gen EXCEPT ![g] = [GenIdle EXCEPT !.pc = "done", !.msg = "Error"]]
  /\ wordStats' = [wordStats EXCEPT
                     !.storyUsage = incrementUsage(wordStats.storyUsage,
                                                   SubSeq(gen[g].selected, 1, 1))]
  /\ UNCHANGED <<wordBank, up, clk, exposures, selVars>>

\* The stats write is rejected: the catch block shows the error.
GenWriteFails(g) ==
  /\ gen[g].pc \in {"update", "set"}
  /\ gen' = [gen EXCEPT ![g] = [GenIdle EXCEPT !.pc = "done", !.msg = "Error"]]
  /\ UNCHANGED <<wordBank, wordStats, up, clk, exposures, selVars>>

\* ========================
\* HANDLE WORD CLICK FUNCTION
\* ========================
\* handleWordClick is an entry point of its own: it runs in every state, also
\* with no stats document, which its not-found branch provides for.

\* The token holds no word: nothing to do.
ClickEmpty(c) ==
  /\ clk[c].pc = "idle"
  /\ mayStart
  /\ \A d \in 1..(c - 1) : clk[d].pc # "idle"
  /\ \E token \in ClickTokens :
       /\ sanitizeWord(token) = 0
       /\ clk' = [clk EXCEPT ![c] = [ClkIdle EXCEPT !.pc = "done"]]
  /\ UNCHANGED <<wordBank, wordStats, up, gen, exposures, selVars>>

\* The value written to lastClickUsage[word]: storyUsage[word] || 0 of the
\* snapshot.
lastClickValue(storyUsage, word) == OrZero(storyUsage, word)

\* getDoc(wordStats): the snapshot the update is computed from.
ClickRead(c) ==
  /\ clk[c].pc = "idle"
  /\ mayStart
  /\ \A d \in 1..(c - 1) : clk[d].pc # "idle"
  /\ \E token \in ClickTokens :
       /\ sanitizeWord(token) # 0
       /\ clk' = [clk EXCEPT ![c] =
            [pc |-> "update", word |-> sanitizeWord(token),
             usage |-> lastClickValue(wordStats.storyUsage, sanitizeWord(token)),
             between |-> {}]]
  /\ UNCHANGED <<wordBank, wordStats, up, gen, exposures, selVars>>

\* clickCount after increment(1) on clickCount.<word>
incrementClicks(clickCount, word) ==
  [w \in DOMAIN clickCount \cup {word} |->
     IF w = word THEN OrZero(clickCount, w) + 1 ELSE clickCount[w]]

\* lastClickUsage.<word> raised by value (increment(S)) instead of set to it.
setLastClickSummed(lastClickUsage, word, value) ==
  [w \in DOMAIN lastClickUsage \cup {word} |->
     IF w = word THEN OrZero(lastClickUsage, w) + value ELSE lastClickUsage[w]]

\* lastClickUsage after lastClickUsage.<word> is set to value
setLastClick(lastClickUsage, word, value) ==
  [w \in DOMAIN lastClickUsage \cup {word} |->
     IF w = word THEN value ELSE lastClickUsage[w]]

\* updateDoc(statsRef, { clickCount.<word>: increment(1), lastClickUsage.<word>: S })
\* is applied to the existing document.
ClickUpdate(c) ==
  /\ clk[c].pc = "update"
  /\ wordStats.exists
  /\ wordStats' = [wordStats EXCEPT
       !.clickCount = incrementClicks(wordStats.clickCount, clk[c].word),
       !.lastClickUsage = setLastClick(wordStats.lastClickUsage, clk[c].word,
                                       clk[c].usage)]
  /\ clk' = [noted("click", c) EXCEPT ![c] = [ClkIdle EXCEPT !.pc = "done"]]
  /\ UNCHANGED <<wordBank, up, gen, exposures, selVars>>

\* updateDoc fails with not-found: there is no stats document.
ClickNotFound(c) ==
  /\ clk[c].pc = "update"
  /\ ~wordStats.exists
  /\ clk' = [clk EXCEPT ![c] = [@ EXCEPT !.pc = "create"]]
  /\ UNCHANGED <<wordBank, wordStats, up, gen, exposures, selVars>>

\* setDoc(statsRef, { storyUsage: {}, clickCount: {word: 1}, lastClickUsage: {word: S} })
\* is applied.
ClickCreate(c) ==
  /\ clk[c].pc = "create"
  /\ wordStats' = [exists |-> TRUE, storyUsage |-> EmptyMap,
                   clickCount |-> incrementClicks(EmptyMap, clk[c].word),
                   lastClickUsage |-> setLastClick(EmptyMap, clk[c].word, clk[c].usage)]
  /\ clk' = [noted("click", c) EXCEPT ![c] = [ClkIdle EXCEPT !.pc = "done"]]
  /\ UNCHANGED <<wordBank, up, gen, exposures, selVars>>

\* ========================
\* THE APPLICATION
\* ========================
SelIdle ==
  /\ selArgs = [allWords |-> <<>>, storyUsage |-> EmptyMap, clickCount |-> EmptyMap,
                lastClickUsage |-> EmptyMap, rs |-> <<0, 0, 0, 0, 0>>]
  /\ selCalled = FALSE
  /\ selRet = <<>>

AppIdle ==
  /\ wordBank = NoBank
  /\ wordStats = NoStats
  /\ up = [u \in 1..MaxUploads |-> UpIdle]
  /\ gen = [g \in 1..MaxGens |-> GenIdle]
  /\ clk = [c \in 1..MaxClicks |-> ClkIdle]
  /\ exposures = EmptyMap

\* An empty database and a freshly loaded page.
Init == AppIdle /\ SelIdle

Next ==
  \/ \E u \in 1..MaxUploads : UploadNoFile(u)
  \/ \E u \in 1..MaxUploads : UploadUnsupported(u)
  \/ \E u \in 1..MaxUploads : UploadRead(u)
  \/ \E u \in 1..MaxUploads : UploadUnion(u)
  \/ \E u \in 1..MaxUploads : UploadSet(u)
  \/ \E g \in 1..MaxGens : GenNoBank(g)
  \/ \E g \in 1..MaxGens : GenReadBank(g)
  \/ \E g \in 1..MaxGens : GenTooFew(g)
  \/ \E g \in 1..MaxGens : GenSelect(g)
  \/ \E g \in 1..MaxGens : GenUpdate(g)
  \/ \E g \in 1..MaxGens : GenSet(g)
  \/ \E g \in 1..MaxGens : GenWriteFails(g)
  \/ \E c \in 1..MaxClicks : ClickEmpty(c)
  \/ \E c \in 1..MaxClicks : ClickRead(c)
  \/ \E c \in 1..MaxClicks : ClickUpdate(c)
  \/ \E c \in 1..MaxClicks : ClickNotFound(c)
  \/ \E c \in 1..MaxClicks : ClickCreate(c)

Spec == Init /\ [][Next]_vars


\* ========================
\* THE SELECTOR ALONE
\* ========================
\* A word's stats as the handlers leave them: su = 0 stands for no storyUsage
\* entry (an entry is created as 1 and only grows); cc = 0 for a word never
\* clicked, with no clickCount and no lastClickUsage entry (a click creates
\* or updates both).
profile(su, cc, lcu) == [su |-> su, cc |-> cc, lcu |-> lcu]

statsOf(words, prof) ==
  [storyUsage     |-> [w \in {x \in words : prof[x].su > 0} |-> prof[w].su],
   clickCount     |-> [w \in {x \in words : prof[x].cc > 0} |-> prof[w].cc],
   lastClickUsage |-> [w \in {x \in words : prof[x].cc > 0} |-> prof[w].lcu]]

\* Every profile within the bounds, numbered from 0.
NProfiles == (MaxStoryUsage + 1) * (1 + MaxClickCount * (MaxStoryUsage + 1))

profileAt(t) ==
  LET k == t \div (MaxStoryUsage + 1)
  IN  profile(t % (MaxStoryUsage + 1),
              IF k = 0 THEN 0 ELSE ((k - 1) \div (MaxStoryUsage + 1)) + 1,
              IF k = 0 THEN 0 ELSE (k - 1) % (MaxStoryUsage + 1))

\* Populations of a universe: the profile of word w.
\*   sweep s  : the profiles in numbering order, starting from number s
\*   fresh    : no stats at all
\*   seen     : every word shown 1..19 times, none clicked
\*   learning : every word clicked 1..3 times, 5 exposures since the click
\*   thin     : 40 unseen, 20 seen, 10 in learning, the others mastered
\*   mixed    : 60 unseen, the next 70 in learning, the others seen
\*   few k    : the first k words in learning, the others unseen
populationProfile(pop, w) ==
  CASE pop.kind = "sweep"    -> profileAt((w - 1 + pop.k) % NProfiles)
    [] pop.kind = "fresh"    -> profile(0, 0, 0)
    [] pop.kind = "seen"     -> profile((w % (MASTER_THRESHOLD - 1)) + 1, 0, 0)
    [] pop.kind = "learning" -> profile(10, (w % MaxClickCount) + 1, 5)
    [] pop.kind = "thin"     ->
         IF w <= 40 THEN profile(0, 0, 0)
         ELSE IF w <= 60 THEN profile(w % MASTER_THRESHOLD, 0, 0)
         ELSE IF w <= 70 THEN profile(REVIEW_THRESHOLD + 4, (w % MaxClickCount) + 1, (w % 10) + 5)
         ELSE IF w % 2 = 0 THEN profile(MASTER_THRESHOLD + (w % 3), 0, 0)
         ELSE profile(REVIEW_THRESHOLD + 5, 1, w % 5)
    [] pop.kind = "mixed"    ->
         IF w <= NEW_BATCH_SIZE + 10 THEN profile(0, 0, 0)
         ELSE IF w <= NEW_BATCH_SIZE + 80 THEN profile(10, (w % MaxClickCount) + 1, 5)
         ELSE profile((w % (MASTER_THRESHOLD - 1)) + 1, 0, 0)
    [] OTHER                 ->
         IF w <= pop.k THEN profile(3, w, 2) ELSE profile(0, 0, 0)

Sweeps == {[kind |-> "sweep", k |-> (NEW_BATCH_SIZE + MIX_SIZE) * j] :
             j \in 0..((NProfiles - 1) \div (NEW_BATCH_SIZE + MIX_SIZE))}

Shapes ==
  {[kind |-> x, k |-> 0] : x \in {"fresh", "seen", "learning", "thin", "mixed"}}
    \cup {[kind |-> "few", k |-> j] : j \in {1, 2, 4}}

\* Word lists the handler passes: 100 or 200 words, and the two lists with a
\* repeated word that one upload of Files stores.
Universes ==
  { seqTo(NEW_BATCH_SIZE + MIX_SIZE), seqTo(2 * (NEW_BATCH_SIZE + MIX_SIZE)),
    <<1>> \o seqTo(NEW_BATCH_SIZE + MIX_SIZE - 1),
    seqTo(NEW_BATCH_SIZE + MIX_SIZE) \o <<NEW_BATCH_SIZE + MIX_SIZE>> }

\* The Math.random() values of the five pickRandom calls.
RandomDraws == [1..5 -> 0..(RandDen - 1)]
SameDraws == {[i \in 1..5 |-> r] : r \in 0..(RandDen - 1)}

selectorArgs(allWords, pop, rs) ==
  LET st == statsOf(Range(allWords),
                    [w \in Range(allWords) |-> populationProfile(pop, w)])
  IN  [allWords |-> allWords, storyUsage |-> st.storyUsage,
       clickCount |-> st.clickCount, lastClickUsage |-> st.lastClickUsage,
       rs |-> rs]

SelInit ==
  /\ AppIdle
  /\ selCalled = FALSE
  /\ selRet = <<>>
  /\ \/ \E allWords \in Universes, pop \in Shapes, rs \in RandomDraws :
          selArgs = selectorArgs(allWords, pop, rs)
     \/ \E allWords \in Universes, pop \in Sweeps, rs \in SameDraws :
          selArgs = selectorArgs(allWords, pop, rs)

\* selectSpacedRepetitionWords(allWords, storyUsage, clickCount, lastClickUsage)
SelectCall ==
  /\ ~selCalled
  /\ selCalled' = TRUE
  /\ selRet' = selectionSteps(selArgs.allWords, selArgs.storyUsage,
                              selArgs.clickCount, selArgs.lastClickUsage, selArgs.rs)
  /\ UNCHANGED <<selArgs, appVars>>

SelNext == SelectCall

SelSpec == SelInit /\ [][SelNext]_vars


\* ========================
\* GENERATION AFTER GENERATION
\* ========================
\* The page after one upload of 100 words: the word bank is stored, no batch
\* has been generated yet.
RepeatInit ==
  /\ wordBank = [exists |-> TRUE, words |-> seqTo(NEW_BATCH_SIZE + MIX_SIZE)]
  /\ wordStats = NoStats
  /\ up = [u \in 1..MaxUploads |-> UpIdle]
  /\ gen = [g \in 1..MaxGens |-> GenIdle]
  /\ clk = [c \in 1..MaxClicks |-> ClkIdle]
  /\ exposures = EmptyMap
  /\ SelIdle

\* The fetchWords button is clicked again once the run before has ended: the
\* listener starts over.  The first run slot stands for the runs made one
\* after another, the second for one run that overlaps them.
GenAgain ==
  /\ gen[1].pc = "done"
  /\ gen' = [gen EXCEPT ![1] = GenIdle]
  /\ UNCHANGED <<wordBank, wordStats, up, clk, exposures, selVars>>

RepeatNext ==
  \/ \E g \in {1, 2} : GenReadBank(g)
  \/ \E g \in {1, 2} : GenSelect(g)
  \/ \E g \in {1, 2} : GenUpdate(g)
  \/ \E g \in {1, 2} : GenSet(g)
  \/ \E g \in {1, 2} : GenWriteFails(g)
  \/ GenAgain

\* The user keeps generating and each await of the handler resolves; a
\* stats write that is attempted again and again is accepted in the end.
\* The selection is the one step a run can take after its reads and it
\* always takes the run on, so its weak fairness is that the run is again
\* and again not waiting for it.
RepeatFair ==
  /\ WF_vars(GenReadBank(1))
  /\ []<>(gen[1].pc # "readStats")
  /\ SF_vars(GenUpdate(1))
  /\ SF_vars(GenSet(1))
  /\ WF_vars(GenAgain)

RepeatSpec == RepeatInit /\ [][RepeatNext]_vars /\ RepeatFair

\* ========================
\* PROPERTIES
\* ========================
TARGET_BATCH_SIZE == NEW_BATCH_SIZE + MIX_SIZE

TierNames == {"unseen", "seenUnclicked", "clickedInLearning",
              "masteredByRepetition", "masteredByReview"}

\* The rule table of the tier classifier, first match winning, on a word's
\* three values (a missing entry counting as 0).
RuleTier(su, cc, lcu) ==
  IF su = 0 THEN "unseen"
  ELSE IF su >= MASTER_THRESHOLD /\ cc = 0 THEN "masteredByRepetition"
  ELSE IF cc > 0 /\ su - lcu >= REVIEW_THRESHOLD THEN "masteredByReview"
  ELSE IF cc > 0 THEN "clickedInLearning"
  ELSE "seenUnclicked"

\* The rule table's tier of word w under the stats of the direct call.
ArgTier(w) ==
  RuleTier(OrZero(selArgs.storyUsage, w), OrZero(selArgs.clickCount, w),
           OrZero(selArgs.lastClickUsage, w))

\* Mastered, as the stats (st) of a call have it.
IsMastered(st, w) ==
  \/ OrZero(st.storyUsage, w) >= MASTER_THRESHOLD /\ OrZero(st.clickCount, w) = 0
  \/ /\ OrZero(st.clickCount, w) > 0
     /\ OrZero(st.storyUsage, w) - OrZero(st.lastClickUsage, w) >= REVIEW_THRESHOLD

ArgWords == Range(selArgs.allWords)

NoRepeat(arr) == \A i, j \in 1..Len(arr) : i # j => arr[i] # arr[j]

\* --- C1 ---
\* Every word of the universe is in exactly one of the five tier lists the
\* selector computes: in none never, in two never.
C1_ExactlyOneTier ==
  selCalled =>
    \A w \in ArgWords :
      Cardinality({t \in TierNames : includes(selRet[t], w)}) = 1

\* A call whose universe has words in each of the five lists, one of them a
\* clicked word with no storyUsage entry.
C1_Witness ==
  /\ selCalled
  /\ \A t \in TierNames : selRet[t] # <<>>
  /\ \E w \in ArgWords : w \in DOMAIN selArgs.clickCount /\ w \notin DOMAIN selArgs.storyUsage

\* --- C2 ---
\* No word of a returned batch, primary picks and backfill alike, is
\* MasteredByRepetition or MasteredByReview under the stats of the call.
C2_NoMasteredInBatch ==
  selCalled =>
    \A i \in 1..Len(selRet.selectedWords) : ~IsMastered(selArgs, selRet.selectedWords[i])

\* A call with mastered words of both kinds in the universe (one shown 25
\* times and never clicked), whose batch has primary picks and a backfill.
C2_Witness ==
  /\ selCalled
  /\ selRet.backfill # <<>>
  /\ selRet.batchNew # <<>>
  /\ selRet.hardPick # <<>>
  /\ \E w \in ArgWords : OrZero(selArgs.storyUsage, w) = 25 /\ OrZero(selArgs.clickCount, w) = 0
  /\ \E w \in ArgWords : OrZero(selArgs.clickCount, w) > 0 /\ IsMastered(selArgs, w)

\* --- C3 ---
\* Once every generate-batch run has completed (no click having run),
\* storyUsage[w] is the number of applied batches that held w.
C3_NoLostIncrement ==
  ( /\ \A g \in DOMAIN gen : gen[g].pc \in {"idle", "done"}
    /\ \A c \in DOMAIN clk : clk[c].pc = "idle" )
  => \A w \in DOMAIN wordStats.storyUsage \cup DOMAIN exposures :
       OrZero(wordStats.storyUsage, w) = OrZero(exposures, w)

\* --- C4 ---
\* A click whose read and write have a batch generation's write between them
\* stores in lastClickUsage[w] the storyUsage[w] of the moment of its write,
\* and raises clickCount[w] by exactly 1.
C4_ClickStoresUsageAtWrite ==
  [][\A c \in DOMAIN clk :
       ( /\ clk[c].pc \in {"update", "create"}
         /\ clk'[c].pc = "done"
         /\ "gen" \in clk[c].between )
       => /\ OrZero(wordStats'.lastClickUsage, clk[c].word)
               = OrZero(wordStats.storyUsage, clk[c].word)
          /\ OrZero(wordStats'.clickCount, clk[c].word)
               = OrZero(wordStats.clickCount, clk[c].word) + 1]_vars

\* --- C5 ---
\* No step lowers a storyUsage, clickCount or lastClickUsage value or removes
\* an entry.
C5_StatsNeverShrink ==
  [][/\ \A w \in DOMAIN wordStats.storyUsage :
          w \in DOMAIN wordStats'.storyUsage
            /\ wordStats'.storyUsage[w] >= wordStats.storyUsage[w]
     /\ \A w \in DOMAIN wordStats.clickCount :
          w \in DOMAIN wordStats'.clickCount
            /\ wordStats'.clickCount[w] >= wordStats.clickCount[w]
     /\ \A w \in DOMAIN wordStats.lastClickUsage :
          w \in DOMAIN wordStats'.lastClickUsage
            /\ wordStats'.lastClickUsage[w] >= wordStats.lastClickUsage[w]]_vars

\* --- C6 ---
\* The batch a generate-batch run selects from the list it read holds every
\* word at most once.
C6_NoDuplicateInBatch ==
  \A g \in DOMAIN gen : gen[g].pc \in {"update", "set"} => NoRepeat(gen[g].selected)

\* --- C7 ---
\* A batch never has more than TARGET_BATCH_SIZE words; it has exactly that
\* many when the universe has at least that many words in the Unseen,
\* SeenUnclicked and ClickedInLearning tiers; 200 words with empty stats give
\* 100 words, all Unseen.
C7_BatchSize ==
  selCalled =>
    /\ Len(selRet.selectedWords) <= TARGET_BATCH_SIZE
    /\ Cardinality({w \in ArgWords :
                      ArgTier(w) \in {"unseen", "seenUnclicked", "clickedInLearning"}})
         >= TARGET_BATCH_SIZE
       => Len(selRet.selectedWords) = TARGET_BATCH_SIZE
    /\ ( /\ Cardinality(ArgWords) = 200
         /\ selArgs.storyUsage = EmptyMap
         /\ selArgs.clickCount = EmptyMap
         /\ selArgs.lastClickUsage = EmptyMap )
       => /\ Len(selRet.selectedWords) = 100
          /\ \A i \in 1..Len(selRet.selectedWords) :
               ArgTier(selRet.selectedWords[i]) = "unseen"

\* The call on 200 words with empty stats has returned 100 words, half of
\* them by the backfill.
C7_Witness ==
  /\ selCalled
  /\ Cardinality(ArgWords) = 200
  /\ selArgs.storyUsage = EmptyMap /\ selArgs.clickCount = EmptyMap
  /\ Len(selRet.selectedWords) = 100
  /\ Len(selRet.backfill) = 50

\* --- C8 ---
\* The tier list the code puts a word in is the one the rule table gives,
\* evaluated in priority order with the first match winning.
C8_TierByRuleTable ==
  selCalled => \A w \in ArgWords : includes(selRet[ArgTier(w)], w)

\* A call whose universe holds a word with clickCount 3, storyUsage 30,
\* lastClickUsage 5 (in masteredByReview) and one with clickCount 3,
\* storyUsage 15, lastClickUsage 5 (in clickedInLearning).
C8_Witness ==
  /\ selCalled
  /\ \E w \in ArgWords :
       /\ OrZero(selArgs.storyUsage, w) = 30 /\ OrZero(selArgs.clickCount, w) = 3
       /\ OrZero(selArgs.lastClickUsage, w) = 5
       /\ includes(selRet.masteredByReview, w)
  /\ \E w \in ArgWords :
       /\ OrZero(selArgs.storyUsage, w) = 15 /\ OrZero(selArgs.clickCount, w) = 3
       /\ OrZero(selArgs.lastClickUsage, w) = 5
       /\ includes(selRet.clickedInLearning, w)

\* --- C9 ---
\* A click on w with no other run's stats write between its read and its
\* write leaves clickCount[w] one higher and lastClickUsage[w] equal to
\* storyUsage[w] (0 without an entry or a record); when there was no stats
\* record, it creates one holding w alone in clickCount and lastClickUsage
\* and an empty storyUsage.
C9_ClickAlone ==
  [][\A c \in DOMAIN clk :
       ( /\ clk[c].pc \in {"update", "create"}
         /\ clk'[c].pc = "done"
         /\ clk[c].between = {} )
       => /\ OrZero(wordStats'.clickCount, clk[c].word)
               = OrZero(wordStats.clickCount, clk[c].word) + 1
          /\ clk[c].word \in DOMAIN wordStats'.lastClickUsage
          /\ wordStats'.lastClickUsage[clk[c].word]
               = OrZero(wordStats.storyUsage, clk[c].word)
          /\ ~wordStats.exists
             => wordStats' = [exists |-> TRUE, storyUsage |-> EmptyMap,
                              clickCount |-> [w \in {clk[c].word} |-> 1],
                              lastClickUsage |-> [w \in {clk[c].word} |-> 0]]]_vars

\* A click on word 1 has completed after a batch holding word 1 was applied:
\* clickCount[1] = 1 and lastClickUsage[1] = storyUsage[1] = 1.
C9_Witness ==
  /\ \E c \in DOMAIN clk : clk[c].pc = "done"
  /\ wordStats.exists
  /\ OrZero(wordStats.storyUsage, 1) = 1
  /\ OrZero(wordStats.clickCount, 1) = 1
  /\ 1 \in DOMAIN wordStats.lastClickUsage
  /\ wordStats.lastClickUsage[1] = 1

\* --- C10 ---
\* A generate-batch run on a universe of fewer than NEW_BATCH_SIZE + MIX_SIZE
\* words ends with the insufficient-corpus report and leaves the stats as
\* they are; on a universe of at least that many words it does not report it.
C10_InsufficientCorpus ==
  [][\A g \in DOMAIN gen :
       (gen[g].pc = "readStats" /\ gen'[g] # gen[g])
       => IF Cardinality(Range(gen[g].allWords)) < NEW_BATCH_SIZE + MIX_SIZE
          THEN /\ gen'[g].pc = "done"
               /\ gen'[g].msg = "NeedAtLeast"
               /\ gen'[g].selected = <<>>
               /\ wordStats' = wordStats
          ELSE gen'[g].msg # "NeedAtLeast"]_vars

\* --- C11 ---
\* The step that ends the stats write of a generate-batch run either applies
\* the increment to every selected word and goes on to the story, or fails:
\* a failing step leaves the stats as they were (no selected word is
\* incremented), shows a message that is not the insufficient-corpus one, and
\* generates no story.
C11_FailedWriteAppliesNothing ==
  [][\A g \in DOMAIN gen :
       (gen[g].pc \in {"update", "set"} /\ gen'[g].pc = "done")
       => IF gen'[g].msg = "Story"
          THEN \A w \in Range(gen[g].selected) :
                 OrZero(wordStats'.storyUsage, w)
                   = IF gen[g].pc = "update" THEN OrZero(wordStats.storyUsage, w) + 1 ELSE 1
          ELSE /\ wordStats' = wordStats
               /\ gen'[g].msg = "Error"
               /\ gen'[g].msg \notin {"NeedAtLeast", "UploadFirst"}]_vars

\* A generate-batch run has failed at its stats write while the record of an
\* earlier batch exists: every word is still at 1.
C11_Witness ==
  /\ \E g \in DOMAIN gen : gen[g].pc = "done" /\ gen[g].msg = "Error"
  /\ wordStats.exists
  /\ wordStats.storyUsage # EmptyMap
  /\ wordStats.storyUsage = exposures
  /\ \A w \in DOMAIN wordStats.storyUsage : wordStats.storyUsage[w] = 1

\* --- C12 ---
\* In every call the new-word draw has at most NEW_BATCH_SIZE words, all of
\* the Unseen tier, and the Hard, Medium and Easy draws have at most 20, 20
\* and 10 words, each from its own band.
C12_QuotaRespect ==
  selCalled =>
    /\ Len(selRet.batchNew) <= NEW_BATCH_SIZE
    /\ \A i \in 1..Len(selRet.batchNew) : ArgTier(selRet.batchNew[i]) = "unseen"
    /\ Len(selRet.hardPick) <= 20
    /\ Range(selRet.hardPick) \subseteq Range(selRet.hard)
    /\ Len(selRet.mediumPick) <= 20
    /\ Range(selRet.mediumPick) \subseteq Range(selRet.medium)
    /\ Len(selRet.easyPick) <= 10
    /\ Range(selRet.easyPick) \subseteq Range(selRet.easy)

\* A call in which every quota is reached with words to spare: more than 50
\* unseen words, bands of more than 20, 20 and 10 words.
C12_Witness ==
  /\ selCalled
  /\ Len(selRet.unseen) > NEW_BATCH_SIZE /\ Len(selRet.batchNew) = NEW_BATCH_SIZE
  /\ Len(selRet.hard) > 20 /\ Len(selRet.hardPick) = 20
  /\ Len(selRet.medium) > 20 /\ Len(selRet.mediumPick) = 20
  /\ Len(selRet.easy) > 10 /\ Len(selRet.easyPick) = 10

\* --- C13 ---
\* ceil(n / 3), as the claim has it.
Share(n) == (n + 2) \div 3

\* The claim as stated: for every ClickedInLearning sequence of length n the
\* Hard and the Medium band each hold ceil(n/3) words and the Easy band the
\* remaining n - 2*ceil(n/3).
C13_BandSizesAsStated ==
  selCalled =>
    LET n == Len(selRet.clickedInLearning)
    IN  /\ Len(selRet.hard) = Share(n)
        /\ Len(selRet.medium) = Share(n)
        /\ Len(selRet.easy) = n - 2 * Share(n)

\* Amended: the Hard band holds ceil(n/3) words, the Medium band the next
\* ceil(n/3) words or as many as are left (none when n = 1), the Easy band
\* the others; for every n other than 1 the sizes are ceil(n/3), ceil(n/3)
\* and n - 2*ceil(n/3).
C13_BandSizes ==
  selCalled =>
    LET n == Len(selRet.clickedInLearning)
    IN  /\ Len(selRet.hard) = Share(n)
        /\ Len(selRet.medium) = min(Share(n), n - Share(n))
        /\ Len(selRet.easy) = n - Len(selRet.hard) - Len(selRet.medium)
        /\ n # 1 => /\ Len(selRet.medium) = Share(n)
                    /\ Len(selRet.easy) = n - 2 * Share(n)

\* A call with a single ClickedInLearning word: it is the Hard band, and the
\* Medium and Easy bands are empty.
C13_Witness ==
  /\ selCalled
  /\ Len(selRet.clickedInLearning) = 1
  /\ Len(selRet.hard) = 1 /\ selRet.medium = <<>> /\ selRet.easy = <<>>

\* --- C14 ---
\* The Hard, Medium and Easy bands are pairwise disjoint, their union is the
\* ClickedInLearning tier, and no Hard word has more clicks than a Medium
\* word, no Medium word more than an Easy word.
C14_BandsPartitionInOrder ==
  selCalled =>
    LET H == Range(selRet.hard)
        M == Range(selRet.medium)
        E == Range(selRet.easy)
        cc(w) == OrZero(selArgs.clickCount, w)
    IN  /\ H \cap M = {} /\ H \cap E = {} /\ M \cap E = {}
        /\ H \cup M \cup E = {w \in ArgWords : ArgTier(w) = "clickedInLearning"}
        /\ \A h \in H, m \in M : cc(h) <= cc(m)
        /\ \A m \in M, e \in E : cc(m) <= cc(e)

\* --- C15 ---
\* The words of the universe that the rule table puts in tier t.
TierWords(t) == {w \in ArgWords : ArgTier(w) = t}

\* The backfill keeps the precedence Unseen, Seen-Unclicked,
\* Clicked-in-Learning: when it adds a word that is not Unseen, every Unseen
\* word is in the returned batch, and when it adds a Clicked-in-Learning
\* word, every Seen-Unclicked word is in the returned batch.
C15_BackfillPrecedence ==
  selCalled =>
    LET added == Range(selRet.backfill)
        batch == Range(selRet.selectedWords)
    IN  /\ added \cap (TierWords("seenUnclicked") \cup TierWords("clickedInLearning")) # {}
           => TierWords("unseen") \subseteq batch
        /\ added \cap TierWords("clickedInLearning") # {}
           => TierWords("seenUnclicked") \subseteq batch

\* --- C16 ---
\* Map m2 is map m1 but for the entry of word w.
SameBut(m1, m2, w) ==
  /\ DOMAIN m1 \ {w} = DOMAIN m2 \ {w}
  /\ \A x \in DOMAIN m1 \ {w} : m2[x] = m1[x]

\* The write of a click on w changes clickCount[w] and lastClickUsage[w]
\* alone, and the write of a generate-batch run changes storyUsage alone,
\* also when runs overlap or no stats record exists yet.
C16_FrameOfWrites ==
  [][/\ \A c \in DOMAIN clk :
          (clk[c].pc \in {"update", "create"} /\ clk'[c].pc = "done")
          => /\ wordStats'.storyUsage = wordStats.storyUsage
             /\ SameBut(wordStats.clickCount, wordStats'.clickCount, clk[c].word)
             /\ SameBut(wordStats.lastClickUsage, wordStats'.lastClickUsage, clk[c].word)
     /\ \A g \in DOMAIN gen :
          (gen[g].pc \in {"update", "set"} /\ gen'[g].pc = "done")
          => /\ wordStats'.clickCount = wordStats.clickCount
             /\ wordStats'.lastClickUsage = wordStats.lastClickUsage]_vars

\* --- C17 ---
\* The stored word bank holds every word at most once, no upload step takes
\* a stored word away, and the step that completes an upload leaves every
\* word of its file in the bank.
C17_BankDeduplicatedAndComplete ==
  [][/\ NoRepeat(wordBank'.words)
     /\ Range(wordBank.words) \subseteq Range(wordBank'.words)
     /\ \A u \in DOMAIN up :
          (up[u].pc \in {"union", "set"} /\ up'[u].pc = "done")
          => Range(up[u].newWords) \subseteq Range(wordBank'.words)]_vars

\* --- C18 ---
\* In every reachable state lastClickUsage[w] <= storyUsage[w] for every
\* word w, a missing entry counting as 0.
C18_LastClickWithinUsage ==
  \A w \in DOMAIN wordStats.lastClickUsage :
    wordStats.lastClickUsage[w] <= OrZero(wordStats.storyUsage, w)

\* --- C19 ---
\* A mastered word is not exposed again: in every reachable state a word
\* never clicked has storyUsage <= MASTER_THRESHOLD and a clicked word has
\* storyUsage - lastClickUsage <= REVIEW_THRESHOLD.
C19_MasteredNotExposedAgain ==
  \A w \in DOMAIN wordStats.storyUsage :
    IF OrZero(wordStats.clickCount, w) = 0
    THEN wordStats.storyUsage[w] <= MASTER_THRESHOLD
    ELSE wordStats.storyUsage[w] - OrZero(wordStats.lastClickUsage, w) <= REVIEW_THRESHOLD

\* --- C20 ---
\* Every word of the bank is MasteredByRepetition.
AllMasteredByRepetition ==
  \A w \in Range(wordBank.words) :
    /\ OrZero(wordStats.storyUsage, w) >= MASTER_THRESHOLD
    /\ OrZero(wordStats.clickCount, w) = 0

\* No run overlaps the runs made one after another.
OneAfterAnother == \A g \in DOMAIN gen : g # 1 => gen[g].pc = "idle"

\* With 100 words and no click, generation after generation: a run selects
\* a non-empty batch as long as some word is not mastered; after finitely
\* many runs every word is MasteredByRepetition, and stays so as long as
\* the runs are made one after another; from then on a run selects the
\* empty batch, and its story is generated all the same (unless the stats
\* write is rejected).
C20_MasteredInTheEnd ==
  /\ [][\A g \in DOMAIN gen :
          ( /\ OneAfterAnother
            /\ gen[g].pc = "readStats"
            /\ gen'[g].pc \in {"update", "set"} )
          => IF AllMasteredByRepetition
             THEN gen'[g].selected = <<>>
             ELSE gen'[g].selected # <<>>]_vars
  /\ <>[]AllMasteredByRepetition
  /\ [][(OneAfterAnother /\ AllMasteredByRepetition) => AllMasteredByRepetition']_vars
  /\ [][\A g \in DOMAIN gen :
          ( /\ OneAfterAnother
            /\ gen[g].pc \in {"update", "set"}
            /\ gen[g].selected = <<>>
            /\ gen'[g].pc = "done"
            /\ gen'[g].msg # "Error" )
          => gen'[g].msg = "Story" /\ wordStats' = wordStats]_vars

\* Twenty batches have been applied one after another, every word is
\* mastered, and the next run has selected the empty batch.
C20_Witness ==
  /\ AllMasteredByRepetition
  /\ \A w \in Range(wordBank.words) : OrZero(exposures, w) = MASTER_THRESHOLD
  /\ \A g \in DOMAIN gen : g # 1 => gen[g].pc = "idle"
  /\ gen[1].pc = "update"
  /\ gen[1].selected = <<>>

====
